---- MODULE Spec2Model ----
(***************************************************************************)
(* A model of the LINE stock bot (src/app.py): the identifier validator,   *)
(* the price / name / history retrieval helpers, the chart renderer, the   *)
(* reply composer, the message handler, the alert store and the alert      *)
(* monitor sweep behind /check_alerts.                                     *)
(*                                                                         *)
(* Strings are sequences of one-character strings.  Characters outside     *)
(* ASCII are written by name: "she","ding" are the two characters of the   *)
(* alert keyword, "cha" is the multi-query keyword, "tian","ri","yue",     *)
(* "xian" are the characters of the month synonyms and "sup2" is the       *)
(* superscript two (U+00B2), a character for which Python's str.isdigit is *)
(* true although it is no decimal digit.                                   *)
(* Prices and targets are decimals held in tenths (5.0 is 50).             *)
(***************************************************************************)
EXTENDS Integers, Sequences, FiniteSets, TLC

VARIABLES
    alerts,     \* the alerts dict: keys in insertion order, and each key's list object
    heap,       \* the list objects created so far: heap[r] is the content of list r
    made,       \* every alert dict ever appended, by identity (uid): its user and fields
    notified,   \* notified[uid]: the alert notifications pushed for alert object uid
    sw,         \* sw[s]: a /check_alerts request: its position and locals
    hd,         \* hd[h]: a /callback message event: its position and locals
    nSweeps,    \* /check_alerts requests started so far
    nMsgs,      \* message events received so far
    BASE_URL,   \* the BASE_URL environment setting, trailing "/" stripped (<<>> when unset)
    name_cache, \* name_cache: stock id -> display name (a function on the cached ids)
    pq,         \* the last call of safe_get_last_price: its upstream answers and its result
    nameLog,    \* the calls of safe_get_stock_name made so far, oldest first
    rq,         \* the last call of build_stock_reply: its inputs, the provider's answers, its result
    pu,         \* the last call of parse_user_input: the message and its result
    hq,         \* the last call of fetch_history_df: the window, the provider's answer, its result
    figs,       \* the pyplot figures that are open
    files,      \* the files under static/: path -> "complete" or "partial"
    plq         \* the last call of plot_stock_trend: its inputs, the outcomes, its result

sysVars == <<alerts, heap, made, notified, sw, hd, nSweeps, nMsgs>>
vars == <<alerts, heap, made, notified, sw, hd, nSweeps, nMsgs, BASE_URL, name_cache, pq, nameLog, rq,
          pu, hq, figs, files, plq>>

(***************************************************************************)
(* Bounds of the model.                                                    *)
(***************************************************************************)
MaxHist == 3        \* longest close series an upstream history fetch returns
MaxNameCalls == 3   \* calls of safe_get_stock_name in one run of SpecName
MaxMsgs == 2        \* message events received in one run
MaxSweeps == 2      \* /check_alerts requests in one run
MaxWorkers == 2     \* requests the server works on at the same time under Spec
MaxTokens == 3      \* words of a message in one run of SpecParse
MaxAlerts == 3      \* alerts of one user in the store a run of SpecSweep starts from

(***************************************************************************)
(* Values.                                                                 *)
(***************************************************************************)
\* Python's None for an optional decimal, and a present decimal.
None == [some |-> FALSE, v |-> 0]
Some(x) == [some |-> TRUE, v |-> x]

\* A cell of the "Close" column: a number or a null (NaN).
NullClose == [null |-> TRUE, v |-> 0]
Close(x) == [null |-> FALSE, v |-> x]

\* Prices the market-data provider may quote, in tenths.
PriceVals == {45, 50, 55}

RECURSIVE SeqsUpTo(_, _)
\* All sequences over S of length 0..n.
SeqsUpTo(S, n) ==
    IF n = 0 THEN {<<>>}
    ELSE LET shorter == SeqsUpTo(S, n - 1)
         IN  shorter \cup {Append(s, x) : s \in {t \in shorter : Len(t) = n - 1}, x \in S}

(***************************************************************************)
(* What the provider may answer.                                           *)
(***************************************************************************)
\* tk.fast_info: the access raises, there is no usable last_price, or a price.
FastThrow == [k |-> "throw", v |-> 0]
FastNone == [k |-> "none", v |-> 0]
FastVal(x) == [k |-> "val", v |-> x]
FastOutcomes == {FastThrow, FastNone} \cup {FastVal(x) : x \in PriceVals}

\* yf.download: the call raises, or returns a frame (possibly None/empty: rows = <<>>)
\* whose "Close" column is rows.
DfThrow == [k |-> "throw", rows |-> <<>>]
Df(rows) == [k |-> "df", rows |-> rows]
CloseCells == {NullClose} \cup {Close(x) : x \in {45, 55}}
HistOutcomes == {DfThrow} \cup {Df(r) : r \in SeqsUpTo(CloseCells, MaxHist)}

(***************************************************************************)
(* safe_get_last_price                                                     *)
(***************************************************************************)
\* df["Close"].dropna()
dropna(rows) == SelectSeq(rows, LAMBDA c : ~c.null)

\* df is None or df.empty
df_empty(df) == df.rows = <<>>

\* The second try block of safe_get_last_price: the 1d/1m download, the 5d/1d
\* download when the first frame is empty, then the last non-null close.  Any
\* exception inside the block (a download that raises, iloc[-1] on an empty
\* column) ends the function with None.
history_fallback(h1, h5) ==
    IF h1.k = "throw" THEN [price |-> None, calls |-> <<"h1">>]
    ELSE LET second == df_empty(h1)
             calls == IF second THEN <<"h1", "h5">> ELSE <<"h1">>
         IN  IF second /\ h5.k = "throw" THEN [price |-> None, calls |-> calls]
             ELSE LET df == IF second THEN h5 ELSE h1
                      closes == dropna(df.rows)
                  IN  IF df_empty(df) THEN [price |-> None, calls |-> calls]
                      ELSE IF closes = <<>> THEN [price |-> None, calls |-> calls]
                      ELSE [price |-> Some(closes[Len(closes)].v), calls |-> calls]

\* safe_get_last_price(stock_id): price is the result, calls the upstream
\* requests issued, in order ("fast", "h1" = 1d/1m history, "h5" = 5d/1d history).
safe_get_last_price(fast, h1, h5) ==
    IF fast.k = "val" THEN [price |-> Some(fast.v), calls |-> <<"fast">>]
    ELSE LET h == history_fallback(h1, h5)
         IN  [price |-> h.price, calls |-> <<"fast">> \o h.calls]

(***************************************************************************)
(* is_valid_stock_id, to_yahoo_symbol                                      *)
(***************************************************************************)
AsciiDigits == {"0", "1", "2", "3", "4", "5", "6", "7", "8", "9"}

\* The characters c with c.isdigit(): the decimal digits and the digit-valued
\* characters that are no decimals, such as the superscript digits.
PyIsDigitChars == AsciiDigits \cup {"sup2"}

\* str.isdigit(): non-empty and every character a digit character.
isdigit(s) == Len(s) > 0 /\ \A i \in 1..Len(s) : s[i] \in PyIsDigitChars

is_valid_stock_id(stock_id) == isdigit(stock_id) /\ Len(stock_id) \in {4, 5}

to_yahoo_symbol(stock_id) == stock_id \o <<".", "T", "W">>

\* An identifier of decimal digits, 4 or 5 of them.
IsDecimalId(id) == Len(id) \in {4, 5} /\ \A i \in 1..Len(id) : id[i] \in AsciiDigits

\* Identifiers used by the model.
ID_2330 == <<"2", "3", "3", "0">>
ID_2317 == <<"2", "3", "1", "7">>
ID_00878 == <<"0", "0", "8", "7", "8">>
ID_233 == <<"2", "3", "3">>
ID_23a0 == <<"2", "3", "a", "0">>
ID_sup == <<"sup2", "3", "3", "0">>

(***************************************************************************)
(* safe_get_stock_name                                                     *)
(***************************************************************************)
\* tk.info: the access raises, or a mapping whose shortName / longName are a
\* name or missing (<<>> stands for a missing, None or empty value).
InfoThrow == [k |-> "throw", short |-> <<>>, long |-> <<>>]
Info(short, long) == [k |-> "info", short |-> short, long |-> long]
NAME_SHORT == <<"T", "S", "M", "C">>
NAME_LONG == <<"T", "a", "i", "w", "a", "n", " ", "S", "e", "m", "i">>
InfoOutcomes == {InfoThrow} \cup {Info(s, l) : s \in {<<>>, NAME_SHORT}, l \in {<<>>, NAME_LONG}}

\* name_cache[stock_id] = name
cache_put(cache, stock_id, name) ==
    [x \in DOMAIN cache \cup {stock_id} |-> IF x = stock_id THEN name ELSE cache[x]]

\* safe_get_stock_name with the assignment name_cache[stock_id] = name left out.
safe_get_stock_name_no_store(cache, stock_id, info) ==
    IF stock_id \in DOMAIN cache
    THEN [name |-> cache[stock_id], cache |-> cache, upstream |-> FALSE]
    ELSE IF info.k = "throw"
    THEN [name |-> stock_id, cache |-> cache, upstream |-> TRUE]
    ELSE LET name == IF info.short # <<>> THEN info.short
                     ELSE IF info.long # <<>> THEN info.long
                     ELSE stock_id
         IN  [name |-> name, cache |-> cache, upstream |-> TRUE]

\* safe_get_stock_name(stock_id) with the cache as it is and the provider's
\* answer: the name returned, the cache afterwards, whether tk.info was read.
safe_get_stock_name(cache, stock_id, info) ==
    IF stock_id \in DOMAIN cache
    THEN [name |-> cache[stock_id], cache |-> cache, upstream |-> FALSE]
    ELSE IF info.k = "throw"
    THEN [name |-> stock_id, cache |-> cache, upstream |-> TRUE]
    ELSE LET name == IF info.short # <<>> THEN info.short
                     ELSE IF info.long # <<>> THEN info.long
                     ELSE stock_id
         IN  [name |-> name, cache |-> cache_put(cache, stock_id, name), upstream |-> TRUE]

(***************************************************************************)
(* get_stock_price_text                                                    *)
(***************************************************************************)
RECURSIVE DigitsOf(_)
\* The decimal digits of a natural number, as characters.
DigitsOf(n) ==
    LET d == <<"0", "1", "2", "3", "4", "5", "6", "7", "8", "9">>[(n % 10) + 1]
    IN  IF n < 10 THEN <<d>> ELSE Append(DigitsOf(n \div 10), d)

\* f"{price:.2f}" of a decimal held in tenths.
fmt2(p) == DigitsOf(p \div 10) \o <<".">> \o DigitsOf(p % 10) \o <<"0">>

\* The fixed parts of the texts, one element each.
TXT_INVALID_L == "INVALID_ID_OPEN"        \* the opening bracket before the id
TXT_INVALID_R == "INVALID_ID_CLOSE"       \* "...is not a legal stock id."
TXT_NOPRICE_L == "NO_PRICE_OPEN"          \* "cannot get ..."
TXT_NOPRICE_R == "NO_PRICE_CLOSE"         \* "...'s latest price (data may be unavailable)."
TXT_PRICE_NOW == " PRICE_NOW "            \* " current price: about "
TXT_YUAN == " YUAN"
TXT_NOTE_NO_CHART == "NOTE_NO_CHART"      \* trend chart data unavailable
TXT_NOTE_NO_BASE_URL == "NOTE_NO_BASE_URL"  \* BASE_URL not set, no image link

\* get_stock_price_text(stock_id): (success, text), the cache afterwards and
\* the symbols handed to the provider.
get_stock_price_text(cache, stock_id, up) ==
    IF ~is_valid_stock_id(stock_id)
    THEN [ok |-> FALSE, text |-> <<TXT_INVALID_L>> \o stock_id \o <<TXT_INVALID_R>>,
          cache |-> cache, asked |-> {}]
    ELSE LET p == safe_get_last_price(up.fast, up.h1, up.h5).price
         IN  IF ~p.some
             THEN [ok |-> FALSE, text |-> <<TXT_NOPRICE_L>> \o stock_id \o <<TXT_NOPRICE_R>>,
                   cache |-> cache, asked |-> {to_yahoo_symbol(stock_id)}]
             ELSE LET n == safe_get_stock_name(cache, stock_id, up.info)
                  IN  [ok |-> TRUE,
                       text |-> n.name \o <<"(">> \o stock_id \o <<")", TXT_PRICE_NOW>>
                                \o fmt2(p.v) \o <<TXT_YUAN>>,
                       cache |-> n.cache, asked |-> {to_yahoo_symbol(stock_id)}]

(***************************************************************************)
(* fetch_history_df, plot_stock_trend                                      *)
(***************************************************************************)
Max(a, b) == IF a >= b THEN a ELSE b

\* The number of days asked of the provider for a window of `days`.
req_days(days) == LET d == IF days <= 0 THEN 5 ELSE days IN Max(d * 3, d + 10)

\* df.tail(n)
tail(rows, n) == IF Len(rows) <= n THEN rows ELSE SubSeq(rows, Len(rows) - n + 1, Len(rows))

NoRows == [some |-> FALSE, rows |-> <<>>]

\* fetch_history_df with df.tail(days) left out.
fetch_history_df_no_tail(days, hist) ==
    IF hist.k = "throw" \/ df_empty(hist) THEN NoRows
    ELSE LET kept == dropna(hist.rows)
         IN  IF kept = <<>> THEN NoRows
             ELSE [some |-> TRUE, rows |-> kept]

\* fetch_history_df(stock_id, days) when the daily download answers `hist`.
fetch_history_df(days, hist) ==
    LET d == IF days <= 0 THEN 5 ELSE days
    IN  IF hist.k = "throw" \/ df_empty(hist) THEN NoRows
        ELSE LET kept == dropna(hist.rows)
             IN  IF kept = <<>> THEN NoRows
                 ELSE [some |-> TRUE, rows |-> tail(kept, d)]

\* What the try block of plot_stock_trend may do: "ok" draws and saves;
\* "draw_fail" raises in a drawing call after plt.figure; "save_fail" raises in
\* plt.savefig before anything is written.
DrawOutcomes == {"ok", "draw_fail", "save_fail"}

\* And beyond those: "figure_fail" raises in plt.figure itself; "save_partial"
\* raises in plt.savefig after the file at the path has been opened for
\* writing (a full disk, an I/O error), leaving it incomplete.
PlotOutcomes == DrawOutcomes \cup {"figure_fail", "save_partial"}

NoFile == [some |-> FALSE, v |-> <<>>]
trend_filename(stock_id) == <<"static/">> \o stock_id \o <<"_trend.png">>

\* open(filename, "wb") and the bytes written: the file at path is in state st.
file_put(fs, path, st) == [x \in DOMAIN fs \cup {path} |-> IF x = path THEN st ELSE fs[x]]

\* plot_stock_trend(stock_id, days) with static/ holding fs: file is the file
\* name returned or NoFile, files is static/ afterwards, open the figures
\* the call has opened and not closed.
plot_stock_trend(fs, stock_id, days, hist, draw) ==
    IF ~is_valid_stock_id(stock_id) THEN [file |-> NoFile, files |-> fs, open |-> 0]
    ELSE LET df == fetch_history_df(days, hist)
             filename == trend_filename(stock_id)
             opened == IF draw = "figure_fail" THEN 0 ELSE 1    \* plt.figure
             closed == opened                                   \* plt.close, in either branch
         IN  IF ~df.some THEN [file |-> NoFile, files |-> fs, open |-> 0]
             ELSE IF draw = "ok"
             THEN [file |-> [some |-> TRUE, v |-> filename],
                   files |-> file_put(fs, filename, "complete"), open |-> opened - closed]
             ELSE IF draw = "save_partial"
             THEN [file |-> NoFile, files |-> file_put(fs, filename, "partial"),
                   open |-> opened - closed]
             ELSE [file |-> NoFile, files |-> fs, open |-> opened - closed]

(***************************************************************************)
(* build_stock_reply                                                       *)
(***************************************************************************)
NoUrl == [some |-> FALSE, v |-> <<>>]

\* build_stock_reply with the "if not ok" early return testing the wrong flag.
build_stock_reply_no_early_return(base_url, cache, fs, stock_id, days, up) ==
    LET t == get_stock_price_text(cache, stock_id, up)
        p == plot_stock_trend(fs, stock_id, days, up.hist, up.draw)
        f == p.file
    IN  IF ~f.some
        THEN [success |-> TRUE, text |-> t.text \o <<"\n", TXT_NOTE_NO_CHART>>,
              image_url |-> NoUrl, cache |-> t.cache, asked |-> t.asked,
              files |-> p.files, open |-> p.open]
        ELSE IF base_url = <<>>
        THEN [success |-> TRUE, text |-> t.text \o <<"\n", TXT_NOTE_NO_BASE_URL>>,
              image_url |-> NoUrl, cache |-> t.cache, asked |-> t.asked,
              files |-> p.files, open |-> p.open]
        ELSE [success |-> TRUE, text |-> t.text,
              image_url |-> [some |-> TRUE, v |-> base_url \o <<"/">> \o f.v],
              cache |-> t.cache, asked |-> t.asked, files |-> p.files, open |-> p.open]

\* build_stock_reply(stock_id, days): (success, price_text, image_url), the
\* cache and static/ afterwards, the figures left open and the symbols handed
\* to the provider.
build_stock_reply(base_url, cache, fs, stock_id, days, up) ==
    LET t == get_stock_price_text(cache, stock_id, up)
    IN  IF ~t.ok
        THEN [success |-> FALSE, text |-> t.text, image_url |-> NoUrl,
              cache |-> t.cache, asked |-> t.asked, files |-> fs, open |-> 0]
        ELSE LET p == plot_stock_trend(fs, stock_id, days, up.hist, up.draw)
                 f == p.file
                 asked == t.asked \cup {to_yahoo_symbol(stock_id)}
             IN  IF ~f.some
                 THEN [success |-> TRUE, text |-> t.text \o <<"\n", TXT_NOTE_NO_CHART>>,
                       image_url |-> NoUrl, cache |-> t.cache, asked |-> asked,
                       files |-> p.files, open |-> p.open]
                 ELSE IF base_url = <<>>
                 THEN [success |-> TRUE, text |-> t.text \o <<"\n", TXT_NOTE_NO_BASE_URL>>,
                       image_url |-> NoUrl, cache |-> t.cache, asked |-> asked,
                       files |-> p.files, open |-> p.open]
                 ELSE [success |-> TRUE, text |-> t.text,
                       image_url |-> [some |-> TRUE, v |-> base_url \o <<"/">> \o f.v],
                       cache |-> t.cache, asked |-> asked, files |-> p.files, open |-> p.open]

\* The provider's answers to one build_stock_reply, as the system
\* specifications draw them: every kind of answer of each call.
UpFast == {FastThrow, FastNone, FastVal(45), FastVal(55)}
UpH1 == {DfThrow, Df(<<>>), Df(<<Close(50)>>)}
UpH5 == {Df(<<>>), Df(<<NullClose>>), Df(<<Close(50)>>)}
UpInfo == {InfoThrow, Info(<<>>, <<>>), Info(NAME_SHORT, <<>>)}
UpHist == {DfThrow, Df(<<>>), Df(<<NullClose>>), Df(<<Close(45), NullClose, Close(55)>>)}
Upstreams ==
    [fast : UpFast, h1 : UpH1, h5 : UpH5, info : UpInfo, hist : UpHist, draw : DrawOutcomes]

NoReplyCall == [called |-> FALSE]

(***************************************************************************)
(* Message texts: str.strip, str.split, str.startswith, re.match           *)
(***************************************************************************)
\* Characters for which str.isspace is true (and which \s matches).
Whitespace == {" "}

\* Characters \d matches in a str pattern: the decimal digits (category Nd).
RegexDigitChars == AsciiDigits

RECURSIVE Span(_, _, _)
\* The number of consecutive characters of s from position i on that are in class.
Span(s, i, class) ==
    IF i > Len(s) \/ s[i] \notin class THEN 0 ELSE 1 + Span(s, i + 1, class)

RECURSIVE RSpan(_, _, _)
\* The number of consecutive characters of s from position i backwards that are in class.
RSpan(s, i, class) ==
    IF i < 1 \/ s[i] \notin class THEN 0 ELSE 1 + RSpan(s, i - 1, class)

\* s.strip()
strip(s) ==
    LET a == Span(s, 1, Whitespace)
        b == RSpan(s, Len(s), Whitespace)
    IN  IF a = Len(s) THEN <<>> ELSE SubSeq(s, a + 1, Len(s) - b)

RECURSIVE SplitFrom(_, _)
\* The whitespace-separated words of s from position i on.
SplitFrom(s, i) ==
    LET j == i + Span(s, i, Whitespace)
        n == Span(s, j, {s[k] : k \in 1..Len(s)} \ Whitespace)
    IN  IF j > Len(s) THEN <<>>
        ELSE <<SubSeq(s, j, j + n - 1)>> \o SplitFrom(s, j + n)

\* s.split()
split(s) == SplitFrom(s, 1)

\* s.startswith(prefix)
startswith(s, prefix) == Len(s) >= Len(prefix) /\ SubSeq(s, 1, Len(prefix)) = prefix

KW_SET == <<"she", "ding">>       \* the alert keyword
KW_QUERY == <<"cha">>             \* the multi-query keyword
MonthWords == {<<"3", "0">>, <<"3", "0", "tian">>, <<"3", "0", "ri">>, <<"yue", "xian">>}

DigitVal(c) == CHOOSE n \in 0..9 : <<"0", "1", "2", "3", "4", "5", "6", "7", "8", "9">>[n + 1] = c

RECURSIVE NatOf(_)
\* int() of a string of decimal digits.
NatOf(s) == IF s = <<>> THEN 0 ELSE NatOf(SubSeq(s, 1, Len(s) - 1)) * 10 + DigitVal(s[Len(s)])

\* float(target_str) in tenths, target_str matched by \d+\.?\d* (digits past the
\* first decimal place are below the model's resolution).
float_tenths(ip, fp) == NatOf(ip) * 10 + (IF fp = <<>> THEN 0 ELSE DigitVal(fp[1]))

NoMatch == [ok |-> FALSE, stock_id |-> <<>>, operator |-> "", target |-> 0]

\* re.match(r"KW\s+(\d+)\s*([<>])\s*(\d+\.?\d*)", user_message): the groups, or
\* NoMatch.  The match is anchored at the start only.
alert_match(m) ==
    IF ~startswith(m, KW_SET) THEN NoMatch
    ELSE LET i1 == Len(KW_SET) + 1
             n1 == Span(m, i1, Whitespace)
             i2 == i1 + n1
             n2 == Span(m, i2, RegexDigitChars)
             i3 == i2 + n2
             i4 == i3 + Span(m, i3, Whitespace)
             i5 == i4 + 1 + Span(m, i4 + 1, Whitespace)
             n5 == Span(m, i5, RegexDigitChars)
             i6 == i5 + n5
             dot == i6 <= Len(m) /\ m[i6] = "."
             i7 == IF dot THEN i6 + 1 ELSE i6
             n7 == Span(m, i7, RegexDigitChars)
         IN  IF n1 = 0 \/ n2 = 0 \/ i4 > Len(m) THEN NoMatch
             ELSE IF m[i4] \notin {"<", ">"} \/ n5 = 0 THEN NoMatch
             ELSE [ok |-> TRUE, stock_id |-> SubSeq(m, i2, i3 - 1), operator |-> m[i4],
                   target |-> float_tenths(SubSeq(m, i5, i6 - 1), SubSeq(m, i7, i7 + n7 - 1))]

(***************************************************************************)
(* parse_user_input                                                        *)
(***************************************************************************)
\* parse_user_input(user_message): mode, stock_ids, days.
parse_user_input(user_message) ==
    LET parts == split(strip(user_message))
    IN  IF parts = <<>> THEN [mode |-> "single", stock_ids |-> <<>>, days |-> 5]
        ELSE IF parts[1] = KW_QUERY
        THEN [mode |-> "multi",
              stock_ids |-> SelectSeq(SubSeq(parts, 2, Len(parts)), is_valid_stock_id),
              days |-> 5]
        ELSE [mode |-> "single", stock_ids |-> <<parts[1]>>,
              days |-> IF Len(parts) > 1 /\ parts[2] \in MonthWords THEN 30 ELSE 5]

\* The message texts of the model.
MSG_SET_GT == KW_SET \o <<" ">> \o ID_2330 \o <<" ", ">", " ", "5">>
MSG_SET_LT == KW_SET \o <<" ">> \o ID_2330 \o <<"<", "5", ".", "0">>
MSG_SET_SHORT_ID == KW_SET \o <<" ">> \o ID_233 \o <<" ", ">", " ", "5">>
MSG_SET_MALFORMED == KW_SET \o <<" ", "a", "b", "c">>
MSG_MULTI == KW_QUERY \o <<" ">> \o ID_2330 \o <<" ">> \o ID_23a0 \o <<" ", " ">> \o ID_2317
MSG_MULTI_NONE == KW_QUERY \o <<" ", "a", "b", "c">>
MSG_SINGLE == ID_2330
MSG_SINGLE_MONTH == <<" ">> \o ID_2317 \o <<" ", "3", "0", "tian">>
MSG_SINGLE_BAD == ID_23a0
MSG_SINGLE_SUP == ID_sup
MSG_BLANK == <<" ">>

(***************************************************************************)
(* Specification SpecPrice: safe_get_last_price applied to every           *)
(* combination of upstream answers.                                        *)
(***************************************************************************)
NoPriceCall == [called |-> FALSE, fast |-> FastNone, h1 |-> Df(<<>>), h5 |-> Df(<<>>),
                price |-> None, calls |-> <<>>]

EmptyCache == <<>>

(***************************************************************************)
(* The process: threads, events, the state after start-up.                 *)
(***************************************************************************)
Users == {"U1", "U2"}
SweepThreads == <<"S1", "S2">>      \* request threads serving GET /check_alerts
HandlerThreads == <<"H1", "H2">>    \* request threads serving POST /callback
Sweeps == {SweepThreads[i] : i \in 1..Len(SweepThreads)}
Handlers == {HandlerThreads[i] : i \in 1..Len(HandlerThreads)}

SetTexts == {MSG_SET_GT, MSG_SET_LT, MSG_SET_SHORT_ID, MSG_SET_MALFORMED}
LookupTexts == {MSG_MULTI, MSG_MULTI_NONE, MSG_SINGLE, MSG_SINGLE_MONTH, MSG_SINGLE_BAD,
                MSG_SINGLE_SUP, MSG_BLANK}

\* The message events of the model: event.source.type, event.source.user_id,
\* event.message.text.
Events ==
    {[src |-> "user", user |-> "U1", text |-> t] : t \in SetTexts \cup LookupTexts}
    \cup {[src |-> "user", user |-> "U2", text |-> MSG_SET_GT]}
    \cup {[src |-> "group", user |-> "U1", text |-> MSG_SET_GT]}

NoEvent == [src |-> "", user |-> "", text |-> <<>>]

\* The response of check_alerts and of callback.
RESP_CHECKED == <<"ALERTS_CHECKED", "200">>

IdleSweep ==
    [pc |-> "idle", users |-> <<>>, ui |-> 0, lst |-> 0, copy |-> <<>>, ai |-> 0,
     resp |-> <<>>,
     asked |-> {}, absent |-> {}, evaluated |-> {}, pushed |-> {}, removed |-> {},
     raised |-> {}, start |-> <<>>, seen |-> <<>>]

IdleHandler ==
    [pc |-> "idle", event |-> NoEvent, alert |-> NoMatch, ids |-> <<>>, days |-> 5, k |-> 0,
     out |-> <<>>, failed |-> FALSE, asked |-> {}, uid |-> 0, calls |-> 0]

\* alerts = {} and no request in progress.
SysIdle ==
    /\ alerts = [keys |-> <<>>, ref |-> [u \in Users |-> 0]]
    /\ heap = <<>>
    /\ made = <<>>
    /\ notified = <<>>
    /\ sw = [s \in Sweeps |-> IdleSweep]
    /\ hd = [h \in Handlers |-> IdleHandler]
    /\ nSweeps = 0
    /\ nMsgs = 0

PriceIdle == pq = NoPriceCall
NameIdle == nameLog = <<>>
ReplyIdle == rq = NoReplyCall

NoParseCall == [called |-> FALSE]
NoHistCall == [called |-> FALSE]
NoPlotCall == [called |-> FALSE]
NoFiles == <<>>

ParseIdle == pu = NoParseCall
HistIdle == hq = NoHistCall
\* No figure is open and static/ is empty.
PlotIdle == figs = 0 /\ files = NoFiles /\ plq = NoPlotCall

\* The settings of BASE_URL: unset, or the public address of the deployment.
URL_HOST == <<"https://bot.example">>
BaseUrls == {<<>>, URL_HOST}

PriceInit ==
    SysIdle /\ BASE_URL = URL_HOST /\ name_cache = EmptyCache /\ PriceIdle /\ NameIdle /\ ReplyIdle
    /\ ParseIdle /\ HistIdle /\ PlotIdle

PriceCall ==
    /\ ~pq.called
    /\ UNCHANGED <<sysVars, BASE_URL, name_cache, nameLog, rq, pu, hq, figs, files, plq>>
    /\ \E fast \in FastOutcomes, h1 \in HistOutcomes, h5 \in HistOutcomes :
        LET r == safe_get_last_price(fast, h1, h5)
        IN  pq' = [called |-> TRUE, fast |-> fast, h1 |-> h1, h5 |-> h5,
                   price |-> r.price, calls |-> r.calls]

\* The caller has taken the result.
PriceReturn ==
    /\ pq.called
    /\ pq' = NoPriceCall
    /\ UNCHANGED <<sysVars, BASE_URL, name_cache, nameLog, rq, pu, hq, figs, files, plq>>

PriceNext == PriceCall \/ PriceReturn

SpecPrice == PriceInit /\ [][PriceNext]_vars

\* A history answer with at least one non-null close.
usable(h) == h.k = "df" /\ dropna(h.rows) # <<>>

\* C4: a fast quote is returned without any history fetch; with no fast quote
\* and a 1d/1m history holding a non-null close the result is its latest
\* close; the result is never absent when some tier of the chain has usable data.
C4_FallbackResult ==
    pq.called =>
        /\ pq.fast.k = "val" => pq.price = Some(pq.fast.v) /\ pq.calls = <<"fast">>
        /\ (pq.fast.k # "val" /\ usable(pq.h1)) =>
               LET c == dropna(pq.h1.rows) IN pq.price = Some(c[Len(c)].v)
        /\ (pq.fast.k = "val" \/ usable(pq.h1) \/ usable(pq.h5)) => pq.price.some

\* C5: the three attempts are isolated: when the fast quote gives nothing the
\* 1d/1m fetch is made, and when that fetch raises or has no usable close the
\* 5d/1d fetch is made as well.
C5_FallbackIsolation ==
    (pq.called /\ pq.fast.k # "val") =>
        /\ \E i \in 1..Len(pq.calls) : pq.calls[i] = "h1"
        /\ ~usable(pq.h1) => \E i \in 1..Len(pq.calls) : pq.calls[i] = "h5"

(***************************************************************************)
(* Specification SpecName: successive calls of safe_get_stock_name.        *)
(***************************************************************************)
NameIds == {ID_2330, ID_2317}

NameInit ==
    SysIdle /\ BASE_URL = URL_HOST /\ name_cache = EmptyCache /\ PriceIdle /\ NameIdle /\ ReplyIdle
    /\ ParseIdle /\ HistIdle /\ PlotIdle

NameCall ==
    /\ Len(nameLog) < MaxNameCalls
    /\ \E stock_id \in NameIds, info \in InfoOutcomes :
          LET r == safe_get_stock_name(name_cache, stock_id, info)
          IN  /\ name_cache' = r.cache
              /\ nameLog' = Append(nameLog, [id |-> stock_id, info |-> info,
                                             name |-> r.name, upstream |-> r.upstream])
    /\ UNCHANGED <<sysVars, BASE_URL, pq, rq, pu, hq, figs, files, plq>>

SpecName == NameInit /\ [][NameCall]_vars

\* Calls i < j of the log are two successive calls for the same identifier.
Successive(i, j) ==
    /\ i < j
    /\ nameLog[i].id = nameLog[j].id
    /\ \A m \in (i + 1)..(j - 1) : nameLog[m].id # nameLog[i].id

UpstreamReads(i, j) ==
    (IF nameLog[i].upstream THEN 1 ELSE 0) + (IF nameLog[j].upstream THEN 1 ELSE 0)

\* C7 as stated: whatever the provider answers, two successive calls for an
\* identifier read tk.info at most once in total and the second call returns
\* the value the first one returned, without reading tk.info.
C7_AtMostOneUpstream ==
    \A i, j \in 1..Len(nameLog) :
        Successive(i, j) =>
            /\ UpstreamReads(i, j) <= 1
            /\ ~nameLog[j].upstream
            /\ nameLog[j].name = nameLog[i].name

\* C7 amended: when the first of two successive calls for an identifier did
\* not end in a provider failure, the two calls read tk.info at most once in
\* total and the second returns the cached value, the one the first returned,
\* even if tk.info would raise by then; when the first call ended in a
\* provider failure nothing was cached and the second call reads tk.info again.
C7_IdempotentAfterSuccess ==
    \A i, j \in 1..Len(nameLog) :
        Successive(i, j) =>
            IF nameLog[i].upstream /\ nameLog[i].info.k = "throw"
            THEN nameLog[j].upstream
            ELSE /\ UpstreamReads(i, j) <= 1
                 /\ ~nameLog[j].upstream
                 /\ nameLog[j].name = nameLog[i].name

\* Witness of C7: a first call resolved the name at the provider, and the
\* next call for the identifier is answered from the cache although tk.info
\* would raise.
C7_Witness ==
    \E i, j \in 1..Len(nameLog) :
        /\ Successive(i, j)
        /\ nameLog[i].upstream /\ nameLog[i].info.k = "info"
        /\ nameLog[j].info.k = "throw"
        /\ nameLog[j].name = nameLog[i].name

\* C18: every entry of the name cache holds a short or long name that the
\* provider returned for the identifier, never the identifier itself, and it
\* is the value that every call for the identifier since the entry was
\* written has returned.
C18_CacheHoldsResolvedNames ==
    \A id \in DOMAIN name_cache :
        /\ name_cache[id] # id
        /\ \E i \in 1..Len(nameLog) :
              /\ nameLog[i].id = id /\ nameLog[i].upstream /\ nameLog[i].info.k = "info"
              /\ name_cache[id] \in {nameLog[i].info.short, nameLog[i].info.long} \ {<<>>}
              /\ \A j \in i..Len(nameLog) : nameLog[j].id = id => nameLog[j].name = name_cache[id]

(***************************************************************************)
(* Specification SpecReply: build_stock_reply applied to every identifier, *)
(* window, provider answer and BASE_URL setting, with the name cache it    *)
(* fills as it goes.                                                       *)
(***************************************************************************)
ReplyIds == {ID_2330, ID_00878, ID_233, ID_23a0, <<>>}
Windows == {5, 30}

ReplyInit ==
    SysIdle /\ BASE_URL \in BaseUrls /\ name_cache = EmptyCache /\ PriceIdle /\ NameIdle /\ ReplyIdle
    /\ ParseIdle /\ HistIdle /\ PlotIdle

ComposeCall ==
    /\ ~rq.called
    /\ \E stock_id \in ReplyIds, days \in Windows, up \in Upstreams :
          LET r == build_stock_reply(BASE_URL, name_cache, files, stock_id, days, up)
          IN  /\ rq' = [called |-> TRUE, stock_id |-> stock_id, days |-> days, up |-> up,
                        success |-> r.success, text |-> r.text, image_url |-> r.image_url]
              /\ name_cache' = r.cache
              /\ files' = r.files
              /\ figs' = figs + r.open
    /\ UNCHANGED <<sysVars, BASE_URL, pq, nameLog, pu, hq, plq>>

\* The caller has taken the triple.
ComposeReturn ==
    /\ rq.called
    /\ rq' = NoReplyCall
    /\ UNCHANGED <<sysVars, BASE_URL, name_cache, pq, nameLog, pu, hq, figs, files, plq>>

ReplyNext == ComposeCall \/ ComposeReturn

SpecReply == ReplyInit /\ [][ReplyNext]_vars

\* The outcomes of the call held in rq, from its inputs.
RqValid == is_valid_stock_id(rq.stock_id)
RqPrice == safe_get_last_price(rq.up.fast, rq.up.h1, rq.up.h5).price.some
RqChart == RqValid /\ usable(rq.up.hist) /\ rq.up.draw = "ok"

\* C8: build_stock_reply returns, for every identifier and every combination
\* of outcomes, a triple with a non-empty text; success is false exactly when
\* the identifier is invalid or no price was obtained; an image reference is
\* present exactly when the identifier is valid, a price was obtained, the
\* chart was rendered and BASE_URL is set.
C8_ComposeTotal ==
    rq.called =>
        /\ rq.text # <<>>
        /\ ~rq.success <=> (~RqValid \/ ~RqPrice)
        /\ rq.image_url.some <=> (RqValid /\ RqPrice /\ RqChart /\ BASE_URL # <<>>)

\* Witness of C8: a degraded reply, a price without a chart, and no image.
C8_Witness ==
    /\ rq.called /\ rq.success /\ ~rq.image_url.some
    /\ RqPrice /\ ~RqChart /\ BASE_URL # <<>>

(***************************************************************************)
(* Specification SpecParse: parse_user_input applied to messages made of   *)
(* up to MaxTokens words.                                                  *)
(***************************************************************************)
\* The words a message of the model is made of.
ParseTokens ==
    {KW_QUERY, ID_2330, ID_2317, ID_23a0, ID_sup,
     <<"3", "0">>, <<"3", "0", "tian">>, <<"yue", "xian">>}

RECURSIVE Join(_, _)
\* sep.join(words)
Join(words, sep) ==
    IF words = <<>> THEN <<>>
    ELSE IF Len(words) = 1 THEN words[1]
    ELSE words[1] \o sep \o Join(Tail(words), sep)

ParseInit ==
    SysIdle /\ BASE_URL = URL_HOST /\ name_cache = EmptyCache /\ PriceIdle /\ NameIdle /\ ReplyIdle
    /\ ParseIdle /\ HistIdle /\ PlotIdle

\* parse_user_input(user_message) for a message whose words are `tokens`,
\* separated by one or two blanks, with or without blanks around it.
ParseCall ==
    /\ ~pu.called
    /\ \E tokens \in SeqsUpTo(ParseTokens, MaxTokens), sep \in {<<" ">>, <<" ", " ">>},
          pad \in {<<>>, <<" ">>} :
          LET user_message == pad \o Join(tokens, sep) \o pad
          IN  pu' = [called |-> TRUE, tokens |-> tokens, user_message |-> user_message,
                     result |-> parse_user_input(user_message)]
    /\ UNCHANGED <<sysVars, BASE_URL, name_cache, pq, nameLog, rq, hq, figs, files, plq>>

\* The caller has taken the result.
ParseReturn ==
    /\ pu.called
    /\ pu' = NoParseCall
    /\ UNCHANGED <<sysVars, BASE_URL, name_cache, pq, nameLog, rq, hq, figs, files, plq>>

ParseNext == ParseCall \/ ParseReturn

SpecParse == ParseInit /\ [][ParseNext]_vars

\* C11: the classification of every token sequence: no token gives a single
\* Lookup with no identifier and window 5; a first token equal to the
\* multi-query keyword gives a multi Lookup holding exactly the remaining
\* tokens of 4 or 5 decimal digits, in order, with window 5; any other first
\* token gives a single Lookup holding that token, with window 30 iff the
\* second token is a month synonym and 5 otherwise.
C11_ParserClassification ==
    pu.called =>
        LET t == pu.tokens
            r == pu.result
        IN  IF t = <<>>
            THEN r = [mode |-> "single", stock_ids |-> <<>>, days |-> 5]
            ELSE IF t[1] = KW_QUERY
            THEN r = [mode |-> "multi", stock_ids |-> SelectSeq(Tail(t), IsDecimalId),
                      days |-> 5]
            ELSE r = [mode |-> "single", stock_ids |-> <<t[1]>>,
                      days |-> IF Len(t) > 1 /\ t[2] \in MonthWords THEN 30 ELSE 5]

(***************************************************************************)
(* Specification SpecHist: fetch_history_df applied to every window and    *)
(* every answer of the daily download.                                     *)
(***************************************************************************)
\* The windows asked for: the two the parser produces, shorter ones, and 0.
HistDays == {0, 1, 2, 5, 30}

HistInit ==
    SysIdle /\ BASE_URL = URL_HOST /\ name_cache = EmptyCache /\ PriceIdle /\ NameIdle /\ ReplyIdle
    /\ ParseIdle /\ HistIdle /\ PlotIdle

\* fetch_history_df(stock_id, days): the period asked of the provider, the
\* provider's answer and the frame returned.
HistCall ==
    /\ ~hq.called
    /\ \E days \in HistDays, hist \in HistOutcomes :
          hq' = [called |-> TRUE, days |-> days, hist |-> hist, period |-> req_days(days),
                 result |-> fetch_history_df(days, hist)]
    /\ UNCHANGED <<sysVars, BASE_URL, name_cache, pq, nameLog, rq, pu, figs, files, plq>>

\* The caller has taken the frame.
HistReturn ==
    /\ hq.called
    /\ hq' = NoHistCall
    /\ UNCHANGED <<sysVars, BASE_URL, name_cache, pq, nameLog, rq, pu, figs, files, plq>>

HistNext == HistCall \/ HistReturn

SpecHist == HistInit /\ [][HistNext]_vars

\* The positions of the raw series whose close is not null.
NonNull(rows) == {i \in 1..Len(rows) : ~rows[i].null}

\* C12: for a window days > 0 the period asked for is max(days*3, days+10)
\* days; the result is absent when the download raises or the series has no
\* non-null close; otherwise it is the last min(days, k) of the k non-null
\* entries of the raw series, in the order of the raw series: never more
\* than days points and never a null close.
C12_HistoryTrimming ==
    (hq.called /\ hq.days > 0) =>
        LET raw == hq.hist.rows
            k == Cardinality(NonNull(raw))
            n == IF hq.days < k THEN hq.days ELSE k
            res == hq.result.rows
        IN  /\ hq.period = (IF hq.days * 3 >= hq.days + 10 THEN hq.days * 3 ELSE hq.days + 10)
            /\ hq.result.some <=> (hq.hist.k = "df" /\ k > 0)
            /\ hq.result.some =>
                  /\ Len(res) = n /\ Len(res) <= hq.days
                  /\ \A i \in 1..Len(res) : ~res[i].null
                  \* res[i] is the raw entry with n - i non-null entries after it
                  /\ \A i \in 1..n :
                        \E j \in NonNull(raw) :
                            /\ Cardinality({m \in NonNull(raw) : m > j}) = n - i
                            /\ res[i] = raw[j]

\* Witness of C12: a series with a null close and more non-null closes than
\* the window was cut to the window.
C12_Witness ==
    /\ hq.called /\ hq.days > 0 /\ hq.result.some
    /\ Cardinality(NonNull(hq.hist.rows)) > hq.days
    /\ Cardinality(NonNull(hq.hist.rows)) < Len(hq.hist.rows)
    /\ Len(hq.result.rows) = hq.days

(***************************************************************************)
(* Specification SpecPlot: successive calls of plot_stock_trend, with the  *)
(* files they leave under static/.                                         *)
(***************************************************************************)
PlotIds == {ID_2330, ID_00878, ID_233}

PlotInit ==
    SysIdle /\ BASE_URL = URL_HOST /\ name_cache = EmptyCache /\ PriceIdle /\ NameIdle /\ ReplyIdle
    /\ ParseIdle /\ HistIdle /\ PlotIdle

\* plot_stock_trend(stock_id, days): before is static/ as the call found it.
PlotCall ==
    /\ ~plq.called
    /\ \E stock_id \in PlotIds, days \in Windows, hist \in UpHist, draw \in PlotOutcomes :
          LET r == plot_stock_trend(files, stock_id, days, hist, draw)
          IN  /\ plq' = [called |-> TRUE, stock_id |-> stock_id, days |-> days, hist |-> hist,
                         draw |-> draw, before |-> files, file |-> r.file]
              /\ files' = r.files
              /\ figs' = figs + r.open
    /\ UNCHANGED <<sysVars, BASE_URL, name_cache, pq, nameLog, rq, pu, hq>>

\* The caller has taken the file name.
PlotReturn ==
    /\ plq.called
    /\ plq' = NoPlotCall
    /\ UNCHANGED <<sysVars, BASE_URL, name_cache, pq, nameLog, rq, pu, hq, figs, files>>

PlotNext == PlotCall \/ PlotReturn

SpecPlot == PlotInit /\ [][PlotNext]_vars

\* C19: after every call of plot_stock_trend, whatever its exit path, no
\* figure opened by the call is open; and when the call returned absent, it
\* has left static/ as it found it: no file it began to write is at the
\* identifier's path.
C19_RenderCleansUp ==
    plq.called =>
        /\ figs = 0
        /\ ~plq.file.some => files = plq.before

(***************************************************************************)
(* run_alert_monitor_once and check_alerts                                 *)
(***************************************************************************)
\* The texts the notifier is given, by their fixed part.
TXT_PRIVATE_ONLY == "PRIVATE_CHAT_ONLY"
TXT_SET_OK == "ALERT_SET_OK"
TXT_FORMAT_ERROR == "ALERT_FORMAT_ERROR"
TXT_NO_VALID_ID == "NO_VALID_STOCK_ID"
TXT_PLEASE_WAIT == "PLEASE_WAIT"

\* The requests in progress.
InFlight == {s \in Sweeps : sw[s].pc # "idle"} \cup {h \in Handlers : hd[h].pc # "idle"}

\* The server takes a new request when fewer than `workers` are in progress,
\* and gives it to the first free thread of its kind.
Accepts(t, order, workers) ==
    /\ Cardinality(InFlight) < workers
    /\ \E i \in 1..Len(order) :
          order[i] = t /\ \A j \in 1..(i - 1) : order[j] \in InFlight

\* The provider's answers to the sweep's price request and name request.
SweepFast == {FastNone, FastVal(45), FastVal(50), FastVal(55)}
SweepInfo == {InfoThrow, Info(NAME_SHORT, <<>>)}

\* Two alert dicts compare equal.
same_alert(a, b) ==
    a.stock_id = b.stock_id /\ a.operator = b.operator /\ a.target = b.target

\* triggered with the comparisons made non-strict.
triggered_or_equal(operator, current_price, target) ==
    \/ operator = ">" /\ current_price >= target
    \/ operator = "<" /\ current_price <= target

\* triggered = (operator == ">" and current_price > target) or
\*             (operator == "<" and current_price < target)
triggered(operator, current_price, target) ==
    \/ operator = ">" /\ current_price > target
    \/ operator = "<" /\ current_price < target

\* The index of the first element of lst equal to alert, 0 if there is none.
first_equal(lst, alert) ==
    IF \E i \in 1..Len(lst) : same_alert(lst[i], alert)
    THEN CHOOSE i \in 1..Len(lst) :
             same_alert(lst[i], alert) /\ \A j \in 1..(i - 1) : ~same_alert(lst[j], alert)
    ELSE 0

\* list_remove taking every element equal to alert.
list_remove_all_equal(lst, alert) == SelectSeq(lst, LAMBDA x : ~same_alert(x, alert))

\* lst after lst.remove(alert), for an alert that has an equal element in lst.
list_remove(lst, alert) ==
    LET i == first_equal(lst, alert)
    IN  SubSeq(lst, 1, i - 1) \o SubSeq(lst, i + 1, Len(lst))

\* GET /check_alerts arrives: run_alert_monitor_once begins.  With no key in
\* alerts it returns at once; otherwise it takes list(alerts.keys()).
SweepStart(s, workers) ==
    /\ sw[s].pc = "idle"
    /\ nSweeps < MaxSweeps
    /\ Accepts(s, SweepThreads, workers)
    /\ nSweeps' = nSweeps + 1
    /\ sw' = [sw EXCEPT ![s] =
                 IF alerts.keys = <<>>
                 THEN [IdleSweep EXCEPT !.pc = "done", !.resp = RESP_CHECKED]
                 ELSE [IdleSweep EXCEPT !.pc = "user", !.users = alerts.keys, !.ui = 1,
                                        !.start = heap]]
    /\ UNCHANGED <<alerts, heap, made, notified, hd, nMsgs, BASE_URL, name_cache, pq, nameLog, rq, pu, hq, figs, files, plq>>

\* The head of the loop over users: user_alerts = alerts.get(user_id, []) and
\* its copy user_alerts[:]; after the last user the function returns and
\* check_alerts answers.
SweepUser(s) ==
    /\ sw[s].pc = "user"
    /\ sw' = [sw EXCEPT ![s] =
                 IF sw[s].ui > Len(sw[s].users)
                 THEN [@ EXCEPT !.pc = "done", !.resp = RESP_CHECKED]
                 ELSE LET r == alerts.ref[sw[s].users[sw[s].ui]]
                      IN  [@ EXCEPT !.pc = "alert", !.lst = r, !.copy = heap[r], !.ai = 1]]
    /\ UNCHANGED <<alerts, heap, made, notified, hd, nSweeps, nMsgs, BASE_URL, name_cache, pq, nameLog, rq, pu, hq, figs, files, plq>>

\* after_price with the "continue" of the None case lost: a missing price
\* falls through to the notification.
after_price_no_continue(loc, alert, p) ==
    IF ~p.some
    THEN [loc EXCEPT !.pc = "push", !.absent = @ \cup {alert.uid}]
    ELSE IF triggered(alert.operator, p.v, alert.target)
    THEN [loc EXCEPT !.pc = "push"]
    ELSE [loc EXCEPT !.ai = @ + 1]

\* What the sweep does with the price it got for the alert at hand: None is
\* skipped, a price that triggers goes on to the notification, any other
\* price leaves the alert for a later sweep.
after_price(loc, alert, p) ==
    IF ~p.some
    THEN [loc EXCEPT !.ai = @ + 1, !.absent = @ \cup {alert.uid}]
    ELSE IF triggered(alert.operator, p.v, alert.target)
    THEN [loc EXCEPT !.pc = "push"]
    ELSE [loc EXCEPT !.ai = @ + 1]

\* The head of the loop over the copy, and for the next alert
\* safe_get_last_price and the test of the condition.
SweepFetch(s) ==
    /\ sw[s].pc = "alert"
    /\ IF sw[s].ai > Len(sw[s].copy)
       THEN sw' = [sw EXCEPT ![s].pc = "user", ![s].ui = @ + 1]
       ELSE \E fast \in SweepFast :
              LET alert == sw[s].copy[sw[s].ai]
                  p == safe_get_last_price(fast, Df(<<>>), Df(<<>>)).price
                  loc == [sw[s] EXCEPT !.asked = @ \cup {to_yahoo_symbol(alert.stock_id)},
                                       !.evaluated = @ \cup {alert.uid},
                                       !.seen = Append(@, [uid |-> alert.uid, price |-> p])]
              IN  sw' = [sw EXCEPT ![s] = after_price(loc, alert, p)]
    /\ UNCHANGED <<alerts, heap, made, notified, hd, nSweeps, nMsgs, BASE_URL, name_cache, pq, nameLog, rq, pu, hq, figs, files, plq>>

\* The except clause of the loop body: the exception raised while alert was
\* processed is printed and the loop goes on with the next alert.
on_alert_error_escapes(loc, alert) ==
    [loc EXCEPT !.pc = "done", !.resp = <<"INTERNAL_SERVER_ERROR", "500">>,
                !.raised = @ \cup {alert.uid}]

on_alert_error(loc, alert) ==
    [loc EXCEPT !.pc = "alert", !.ai = @ + 1, !.raised = @ \cup {alert.uid}]

\* A triggered alert: safe_get_stock_name, then push_message, which delivers
\* or raises.
SweepPush(s) ==
    /\ sw[s].pc = "push"
    /\ \E info \in SweepInfo, delivered \in BOOLEAN :
          LET alert == sw[s].copy[sw[s].ai]
              n == safe_get_stock_name(name_cache, alert.stock_id, info)
              loc == [sw[s] EXCEPT !.asked = @ \cup
                        (IF n.upstream THEN {to_yahoo_symbol(alert.stock_id)} ELSE {})]
          IN  /\ name_cache' = n.cache
              /\ IF delivered
                 THEN /\ notified' = [notified EXCEPT ![alert.uid] = @ + 1]
                      /\ sw' = [sw EXCEPT ![s] =
                                   [loc EXCEPT !.pc = "remove", !.pushed = @ \cup {alert.uid}]]
                 ELSE /\ notified' = notified
                      /\ sw' = [sw EXCEPT ![s] = on_alert_error(loc, alert)]
    /\ UNCHANGED <<alerts, heap, made, hd, nSweeps, nMsgs, BASE_URL, pq, nameLog, rq, pu, hq, figs, files, plq>>

\* The sweep with the statement user_alerts.remove(alert) left out.
SweepRemove_skipped(s) ==
    /\ sw[s].pc = "remove"
    /\ heap' = heap
    /\ sw' = [sw EXCEPT ![s].pc = "alert", ![s].ai = @ + 1]
    /\ UNCHANGED <<alerts, made, notified, hd, nSweeps, nMsgs, BASE_URL, name_cache, pq, nameLog, rq, pu, hq, figs, files, plq>>

\* user_alerts.remove(alert): the first equal element of the list object goes;
\* with no equal element left the ValueError is caught by the except clause.
SweepRemove(s) ==
    /\ sw[s].pc = "remove"
    /\ LET alert == sw[s].copy[sw[s].ai]
           lst == heap[sw[s].lst]
           i == first_equal(lst, alert)
       IN  IF i = 0
           THEN /\ heap' = heap
                /\ sw' = [sw EXCEPT ![s] = on_alert_error(@, alert)]
           ELSE /\ heap' = [heap EXCEPT ![sw[s].lst] = list_remove(lst, alert)]
                /\ sw' = [sw EXCEPT ![s].pc = "alert", ![s].ai = @ + 1,
                                     ![s].removed = @ \cup {lst[i].uid}]
    /\ UNCHANGED <<alerts, made, notified, hd, nSweeps, nMsgs, BASE_URL, name_cache, pq, nameLog, rq, pu, hq, figs, files, plq>>

\* The response of check_alerts has been sent.
SweepReturn(s) ==
    /\ sw[s].pc = "done"
    /\ sw' = [sw EXCEPT ![s] = IdleSweep]
    /\ UNCHANGED <<alerts, heap, made, notified, hd, nSweeps, nMsgs, BASE_URL, name_cache, pq, nameLog, rq, pu, hq, figs, files, plq>>

(***************************************************************************)
(* handle_message                                                          *)
(***************************************************************************)
\* One call of the notifier: reply_message or push_message with a text and,
\* for a push with a chart, an image.
Sent(api, text, image) == [api |-> api, text |-> text, image |-> image]

\* The handler after a notifier call outside any try block: the message is
\* out and the handler goes to `next`, or the call raised and the exception
\* leaves handle_message (callback logs it and answers OK).
after_send(loc, delivered, msg, next) ==
    IF delivered THEN [loc EXCEPT !.pc = next, !.out = Append(@, msg), !.calls = @ + 1]
    ELSE [loc EXCEPT !.pc = "done", !.failed = TRUE, !.calls = @ + 1]

\* The provider's answers to one lookup of the handler.
\* No price at all; price, name and chart; a price only, the name lookup
\* raising and the history empty; a price only, the drawing raising as well.
LookupUps ==
    {[fast |-> FastNone, h1 |-> Df(<<>>), h5 |-> Df(<<>>), info |-> InfoThrow,
      hist |-> Df(<<>>), draw |-> "ok"],
     [fast |-> FastVal(55), h1 |-> Df(<<>>), h5 |-> Df(<<>>), info |-> Info(NAME_SHORT, <<>>),
      hist |-> Df(<<Close(45), NullClose, Close(55)>>), draw |-> "ok"],
     [fast |-> FastVal(55), h1 |-> Df(<<>>), h5 |-> Df(<<>>), info |-> InfoThrow,
      hist |-> Df(<<>>), draw |-> "ok"],
     [fast |-> FastVal(55), h1 |-> Df(<<>>), h5 |-> Df(<<>>), info |-> InfoThrow,
      hist |-> Df(<<Close(45), NullClose, Close(55)>>), draw |-> "draw_fail"]}

\* message_entry with the reply of the "no valid stock id" branch left out.
message_entry_silent_multi(ev, delivered, has_list) ==
    LET loc == [IdleHandler EXCEPT !.event = ev]
        user_message == strip(ev.text)
        m == alert_match(user_message)
        parsed == parse_user_input(user_message)
    IN  IF ev.src # "user"
        THEN after_send(loc, delivered, Sent("reply", <<TXT_PRIVATE_ONLY>>, FALSE), "done")
        ELSE IF startswith(user_message, KW_SET)
        THEN IF m.ok /\ is_valid_stock_id(m.stock_id)
             THEN [loc EXCEPT !.alert = m, !.pc = IF has_list THEN "append" ELSE "create"]
             ELSE after_send(loc, delivered, Sent("reply", <<TXT_FORMAT_ERROR>>, FALSE), "done")
        ELSE IF parsed.mode = "multi" /\ parsed.stock_ids = <<>>
        THEN [loc EXCEPT !.pc = "done"]
        ELSE after_send([loc EXCEPT !.ids = parsed.stock_ids, !.days = parsed.days, !.k = 1],
                        delivered, Sent("reply", <<TXT_PLEASE_WAIT>>, FALSE), "lookup")

\* message_entry with the test of event.source.type left out.
message_entry_no_private_check(ev, delivered, has_list) ==
    LET loc == [IdleHandler EXCEPT !.event = ev]
        user_message == strip(ev.text)
        m == alert_match(user_message)
        parsed == parse_user_input(user_message)
    IN  IF startswith(user_message, KW_SET)
        THEN IF m.ok /\ is_valid_stock_id(m.stock_id)
             THEN [loc EXCEPT !.alert = m, !.pc = IF has_list THEN "append" ELSE "create"]
             ELSE after_send(loc, delivered, Sent("reply", <<TXT_FORMAT_ERROR>>, FALSE), "done")
        ELSE IF parsed.mode = "multi" /\ parsed.stock_ids = <<>>
        THEN after_send(loc, delivered, Sent("reply", <<TXT_NO_VALID_ID>>, FALSE), "done")
        ELSE after_send([loc EXCEPT !.ids = parsed.stock_ids, !.days = parsed.days, !.k = 1],
                        delivered, Sent("reply", <<TXT_PLEASE_WAIT>>, FALSE), "lookup")

\* message_entry with the "please wait" reply left out: the lookups start at once.
message_entry_no_wait(ev, delivered, has_list) ==
    LET loc == [IdleHandler EXCEPT !.event = ev]
        user_message == strip(ev.text)
        m == alert_match(user_message)
        parsed == parse_user_input(user_message)
    IN  IF ev.src # "user"
        THEN after_send(loc, delivered, Sent("reply", <<TXT_PRIVATE_ONLY>>, FALSE), "done")
        ELSE IF startswith(user_message, KW_SET)
        THEN IF m.ok /\ is_valid_stock_id(m.stock_id)
             THEN [loc EXCEPT !.alert = m, !.pc = IF has_list THEN "append" ELSE "create"]
             ELSE after_send(loc, delivered, Sent("reply", <<TXT_FORMAT_ERROR>>, FALSE), "done")
        ELSE IF parsed.mode = "multi" /\ parsed.stock_ids = <<>>
        THEN after_send(loc, delivered, Sent("reply", <<TXT_NO_VALID_ID>>, FALSE), "done")
        ELSE [loc EXCEPT !.ids = parsed.stock_ids, !.days = parsed.days, !.k = 1, !.pc = "lookup"]

\* handle_message from its entry to its first reply, or for an accepted alert
\* command to the test "user_id not in alerts" (has_list is its negation):
\* the private-chat check, the alert command's match and validation,
\* parse_user_input and the reply that follows it.
message_entry(ev, delivered, has_list) ==
    LET loc == [IdleHandler EXCEPT !.event = ev]
        user_message == strip(ev.text)
        m == alert_match(user_message)
        parsed == parse_user_input(user_message)
    IN  IF ev.src # "user"
        THEN after_send(loc, delivered, Sent("reply", <<TXT_PRIVATE_ONLY>>, FALSE), "done")
        ELSE IF startswith(user_message, KW_SET)
        THEN IF m.ok /\ is_valid_stock_id(m.stock_id)
             THEN [loc EXCEPT !.alert = m, !.pc = IF has_list THEN "append" ELSE "create"]
             ELSE after_send(loc, delivered, Sent("reply", <<TXT_FORMAT_ERROR>>, FALSE), "done")
        ELSE IF parsed.mode = "multi" /\ parsed.stock_ids = <<>>
        THEN after_send(loc, delivered, Sent("reply", <<TXT_NO_VALID_ID>>, FALSE), "done")
        ELSE after_send([loc EXCEPT !.ids = parsed.stock_ids, !.days = parsed.days, !.k = 1],
                        delivered, Sent("reply", <<TXT_PLEASE_WAIT>>, FALSE), "lookup")

\* A message event arrives and handle_message runs up to its first reply.
HandleMessage(h, workers) ==
    /\ hd[h].pc = "idle"
    /\ nMsgs < MaxMsgs
    /\ Accepts(h, HandlerThreads, workers)
    /\ nMsgs' = nMsgs + 1
    /\ \E ev \in Events, delivered \in BOOLEAN :
          hd' = [hd EXCEPT ![h] = message_entry(ev, delivered, alerts.ref[ev.user] # 0)]
    /\ UNCHANGED <<alerts, heap, made, notified, sw, nSweeps, BASE_URL, name_cache, pq, nameLog, rq, pu, hq, figs, files, plq>>

\* alerts[user_id] = []: a new, empty list object becomes the user's list.
HandleSetCreate(h) ==
    /\ hd[h].pc = "create"
    /\ LET u == hd[h].event.user
       IN  /\ heap' = Append(heap, <<>>)
           /\ alerts' = [keys |-> IF alerts.ref[u] = 0 THEN Append(alerts.keys, u) ELSE alerts.keys,
                         ref |-> [alerts.ref EXCEPT ![u] = Len(heap) + 1]]
    /\ hd' = [hd EXCEPT ![h].pc = "append"]
    /\ UNCHANGED <<made, notified, sw, nSweeps, nMsgs, BASE_URL, name_cache, pq, nameLog, rq, pu, hq, figs, files, plq>>

\* alerts[user_id].append({...}) and the acknowledgment; if the acknowledgment
\* raises, the except clause replies with the format error (which may raise
\* in turn and leave the handler).
HandleSetAppend(h) ==
    /\ hd[h].pc = "append"
    /\ LET u == hd[h].event.user
           a == hd[h].alert
           new == [uid |-> Len(made) + 1, stock_id |-> a.stock_id, operator |-> a.operator,
                   target |-> a.target]
       IN  /\ heap' = [heap EXCEPT ![alerts.ref[u]] = Append(@, new)]
           /\ made' = Append(made, [user |-> u, stock_id |-> a.stock_id,
                                     operator |-> a.operator, target |-> a.target])
           /\ notified' = Append(notified, 0)
    /\ \E delivered \in BOOLEAN, delivered2 \in BOOLEAN :
          LET loc == [hd[h] EXCEPT !.uid = Len(made) + 1]
          IN  hd' = [hd EXCEPT ![h] =
                       IF delivered
                       THEN after_send(loc, TRUE, Sent("reply", <<TXT_SET_OK>>, FALSE), "done")
                       ELSE after_send([loc EXCEPT !.calls = @ + 1], delivered2,
                                       Sent("reply", <<TXT_FORMAT_ERROR>>, FALSE), "done")]
    /\ UNCHANGED <<alerts, sw, nSweeps, nMsgs, BASE_URL, name_cache, pq, nameLog, rq, pu, hq, figs, files, plq>>

\* The loop over parsed["stock_ids"]: build_stock_reply and one push_message
\* for the next identifier; after the last one the handler returns.
HandleLookup(h) ==
    /\ hd[h].pc = "lookup"
    /\ IF hd[h].k > Len(hd[h].ids)
       THEN /\ hd' = [hd EXCEPT ![h].pc = "done"]
            /\ UNCHANGED <<name_cache, files, figs>>
       ELSE \E up \in LookupUps, delivered \in BOOLEAN :
              LET stock_id == hd[h].ids[hd[h].k]
                  r == build_stock_reply(BASE_URL, name_cache, files, stock_id, hd[h].days, up)
                  loc == [hd[h] EXCEPT !.k = @ + 1, !.asked = @ \cup r.asked]
              IN  /\ name_cache' = r.cache
                  /\ files' = r.files
                  /\ figs' = figs + r.open
                  /\ hd' = [hd EXCEPT ![h] =
                        after_send(loc, delivered, Sent("push", r.text, r.image_url.some), "lookup")]
    /\ UNCHANGED <<alerts, heap, made, notified, sw, nSweeps, nMsgs, BASE_URL, pq, nameLog, rq, pu, hq, plq>>

\* callback has answered "OK".
HandleReturn(h) ==
    /\ hd[h].pc = "done"
    /\ hd' = [hd EXCEPT ![h] = IdleHandler]
    /\ UNCHANGED <<alerts, heap, made, notified, sw, nSweeps, nMsgs, BASE_URL, name_cache, pq, nameLog, rq, pu, hq, figs, files, plq>>

(***************************************************************************)
(* Specifications of the process.  Spec: the request threads interleave    *)
(* freely.  SpecSeq: each request runs to completion before the next       *)
(* starts; a request in progress keeps running.                            *)
(***************************************************************************)
Init ==
    SysIdle /\ BASE_URL = URL_HOST /\ name_cache = EmptyCache /\ PriceIdle /\ NameIdle /\ ReplyIdle
    /\ ParseIdle /\ HistIdle /\ PlotIdle

SweepSteps(s) == SweepUser(s) \/ SweepFetch(s) \/ SweepPush(s) \/ SweepRemove(s) \/ SweepReturn(s)

HandleSteps(h) == HandleSetCreate(h) \/ HandleSetAppend(h) \/ HandleLookup(h) \/ HandleReturn(h)

Next ==
    \/ \E s \in Sweeps : SweepStart(s, MaxWorkers) \/ SweepSteps(s)
    \/ \E h \in Handlers : HandleMessage(h, MaxWorkers) \/ HandleSteps(h)

NextSeq ==
    \/ \E s \in Sweeps : SweepStart(s, 1) \/ SweepSteps(s)
    \/ \E h \in Handlers : HandleMessage(h, 1) \/ HandleSteps(h)

Spec == Init /\ [][Next]_vars

SpecSeq == Init /\ [][NextSeq]_vars /\ WF_vars(NextSeq)

(***************************************************************************)
(* Properties of the alert store and the sweep.                            *)
(***************************************************************************)
\* The user's list in the alert store (empty when the user has no key).
ListOf(u) == IF alerts.ref[u] = 0 THEN <<>> ELSE heap[alerts.ref[u]]

\* Alert object uid is in the store.
InStore(uid) == \E u \in Users : \E i \in 1..Len(ListOf(u)) : ListOf(u)[i].uid = uid

\* The alert objects of user u equal to alert object uid (uid included).
Equals(uid) ==
    {x \in 1..Len(made) : made[x].user = made[uid].user /\ same_alert(made[x], made[uid])}

\* Of the entries equal to alert object uid: those now in the user's list.
Pending(uid) ==
    Cardinality({i \in 1..Len(ListOf(made[uid].user)) :
                    same_alert(ListOf(made[uid].user)[i], made[uid])})

RECURSIVE SumNotified(_)
SumNotified(S) ==
    IF S = {} THEN 0 ELSE LET x == CHOOSE y \in S : TRUE IN notified[x] + SumNotified(S \ {x})

\* The sweeps that have pushed the notification for an alert equal to alert
\* object uid and have not yet executed the remove that follows.
AboutToRemove(uid) ==
    {s \in Sweeps : sw[s].pc = "remove" /\ sw[s].copy[sw[s].ai].uid \in Equals(uid)}

\* C1 as stated: once a sweep has notified for an alert object (and executed
\* the remove that follows), that object is not in the user's list, and no
\* sweep notifies for it again.
C1_FireOnceInstance ==
    \A uid \in 1..Len(made) :
        /\ notified[uid] <= 1
        /\ (notified[uid] >= 1 /\ \A s \in Sweeps : ~(sw[s].pc = "remove" /\ sw[s].copy[sw[s].ai].uid = uid))
               => ~InStore(uid)

\* C1 amended: every notification a sweep emits for a condition of a user is
\* followed in that sweep by the removal of one entry equal to it from the
\* user's list (the first equal entry, which is another object when the user
\* holds equal conditions), and nothing else adds a notification or drops an
\* entry: notifications emitted plus entries pending is the number of times
\* the user set the condition, so no later sweep notifies for an entry that
\* has fired, whatever price it observes.
C1_FireOncePerEntry ==
    \A uid \in 1..Len(made) :
        SumNotified(Equals(uid)) + Pending(uid) - Cardinality(AboutToRemove(uid))
            = Cardinality(Equals(uid))

\* Witness of C1: an alert has fired and is gone, and a later sweep has run
\* to its end, evaluating the condition that is left, without notifying.
C1_Witness ==
    \E uid \in 1..Len(made), s \in Sweeps :
        /\ notified[uid] = 1 /\ ~InStore(uid)
        /\ nSweeps = 2 /\ sw[s].pc = "done" /\ sw[s].pushed = {} /\ sw[s].evaluated # {}

InCritical(s, u) ==
    sw[s].pc \in {"alert", "push", "remove"} /\ sw[s].users[sw[s].ui] = u

\* C3: at most one sweep at a time is inside the read-evaluate-remove
\* sequence of a user's list, and no alert is notified twice by overlapping sweeps.
C3_SweepsSerialized ==
    /\ \A s1, s2 \in Sweeps, u \in Users : (InCritical(s1, u) /\ InCritical(s2, u)) => s1 = s2
    /\ \A s1, s2 \in Sweeps : s1 # s2 => sw[s1].pushed \cap sw[s2].pushed = {}

\* The identifier of a symbol handed to the provider.
IdOf(symbol) == SubSeq(symbol, 1, Len(symbol) - 3)

\* C6: every identifier handed to the provider by a handler or a sweep, and
\* every identifier in the alert store, is 4 or 5 decimal digits.
C6_OnlyDecimalIdentifiers ==
    /\ \A h \in Handlers : \A sym \in hd[h].asked : IsDecimalId(IdOf(sym))
    /\ \A s \in Sweeps : \A sym \in sw[s].asked : IsDecimalId(IdOf(sym))
    /\ \A r \in 1..Len(heap) : \A i \in 1..Len(heap[r]) : IsDecimalId(heap[r][i].stock_id)

C10_SweepCompletes ==
    /\ [](\A s \in Sweeps :
            sw[s].pc = "done" =>
                /\ sw[s].resp = RESP_CHECKED
                /\ \A uid \in 1..Len(made) :
                       (InStore(uid) \/ uid \in sw[s].removed) => uid \in sw[s].evaluated)
    /\ \A s \in Sweeps : (sw[s].pc # "idle") ~> (sw[s].pc = "done")

\* Witness of C10: a sweep has ended after an exception was caught for one
\* condition and a condition after it was evaluated.
C10_Witness ==
    \E s \in Sweeps, a \in 1..Len(made), b \in 1..Len(made) :
        /\ sw[s].pc = "done" /\ sw[s].resp = RESP_CHECKED
        /\ a \in sw[s].raised /\ b \in sw[s].evaluated /\ a < b

(***************************************************************************)
(* Specification SpecSweep: one sweep run alone over a store that earlier  *)
(* alert-set commands have filled.                                         *)
(***************************************************************************)
\* The alert dict that an accepted alert-set command appends, as object uid.
AlertObject(text, uid) ==
    LET m == alert_match(strip(text))
    IN  [uid |-> uid, stock_id |-> m.stock_id, operator |-> m.operator, target |-> m.target]

\* The store after user U1 has sent the commands t1 and then user U2 the
\* commands t2, all acknowledged, with no notification sent so far.
StoreAfter(t1, t2) ==
    LET n1 == Len(t1)
        n2 == Len(t2)
        l1 == [i \in 1..n1 |-> AlertObject(t1[i], i)]
        l2 == [i \in 1..n2 |-> AlertObject(t2[i], n1 + i)]
        owner(i) == IF i <= n1 THEN "U1" ELSE "U2"
        obj(i) == IF i <= n1 THEN l1[i] ELSE l2[i - n1]
    IN  [alerts |-> [keys |-> (IF n1 > 0 THEN <<"U1">> ELSE <<>>) \o (IF n2 > 0 THEN <<"U2">> ELSE <<>>),
                     ref |-> [u \in Users |->
                                IF u = "U1" THEN (IF n1 > 0 THEN 1 ELSE 0)
                                ELSE IF n2 = 0 THEN 0 ELSE IF n1 > 0 THEN 2 ELSE 1]],
         heap |-> (IF n1 > 0 THEN <<l1>> ELSE <<>>) \o (IF n2 > 0 THEN <<l2>> ELSE <<>>),
         made |-> [i \in 1..(n1 + n2) |->
                     [user |-> owner(i), stock_id |-> obj(i).stock_id,
                      operator |-> obj(i).operator, target |-> obj(i).target]],
         n |-> n1 + n2]

\* The stores a run of SpecSweep starts from: up to MaxAlerts alerts of U1,
\* equal ones among them, and at most one of U2.
SweepStores ==
    {StoreAfter(t1, t2) : t1 \in SeqsUpTo({MSG_SET_GT, MSG_SET_LT}, MaxAlerts),
                          t2 \in SeqsUpTo({MSG_SET_GT}, 1)}

SweepInit ==
    /\ \E st \in SweepStores :
          /\ alerts = st.alerts
          /\ heap = st.heap
          /\ made = st.made
          /\ notified = [i \in 1..st.n |-> 0]
          /\ nMsgs = st.n
    /\ sw = [s \in Sweeps |-> IdleSweep]
    /\ hd = [h \in Handlers |-> IdleHandler]
    /\ nSweeps = MaxSweeps - 1
    /\ BASE_URL = URL_HOST /\ name_cache = EmptyCache /\ PriceIdle /\ NameIdle /\ ReplyIdle
    /\ ParseIdle /\ HistIdle /\ PlotIdle

NextSweep == \E s \in Sweeps : SweepStart(s, 1) \/ SweepSteps(s)

SpecSweep == SweepInit /\ [][NextSweep]_vars

\* The alert objects for which sweep s observed a price that strictly
\* satisfies the operator: above the target for ">", below it for "<".
ObservedTrue(s) ==
    {sw[s].seen[i].uid : i \in {j \in 1..Len(sw[s].seen) :
        LET o == sw[s].seen[j]
        IN  /\ o.price.some
            /\ \/ made[o.uid].operator = ">" /\ o.price.v > made[o.uid].target
               \/ made[o.uid].operator = "<" /\ o.price.v < made[o.uid].target}}

\* The elements of seq at the positions in P, in the order of seq.
AtPositions(seq, P) ==
    [i \in 1..Cardinality(P) |-> seq[CHOOSE p \in P : Cardinality({q \in P : q < p}) = i - 1]]

\* C13 as stated: when a sweep run alone ends, the conditions it notified
\* and the conditions it removed are exactly those whose price was retrieved
\* and strictly satisfies the operator, and every list of the store is what
\* it was at the start without those conditions, in the same order.
C13_SweepEffectExact ==
    \A s \in Sweeps :
        sw[s].pc = "done" =>
            /\ sw[s].pushed = ObservedTrue(s)
            /\ sw[s].removed = ObservedTrue(s)
            /\ \A r \in 1..Len(sw[s].start) :
                  heap[r] = SelectSeq(sw[s].start[r], LAMBDA a : a.uid \notin ObservedTrue(s))

\* C13 amended: when a sweep run alone ends, it has notified exactly the
\* conditions whose price was retrieved and strictly satisfies the operator
\* (equality never triggers) and whose notification the notifier accepted; a
\* condition observed true whose notification raised has stayed.  For every
\* notification one entry equal to the notified condition has left the list,
\* the first one, and nothing else has: each list is what it was at the
\* start without the first m entries of every group of equal entries, m the
\* notifications sent for the group, the others in their original order.
C13_SweepEffectDelivered ==
    \A s \in Sweeps :
        sw[s].pc = "done" =>
            /\ sw[s].pushed \subseteq ObservedTrue(s)
            /\ ObservedTrue(s) \ sw[s].pushed = sw[s].raised
            /\ Cardinality(sw[s].removed) = Cardinality(sw[s].pushed)
            /\ \A r \in 1..Len(sw[s].start) :
                  LET old == sw[s].start[r]
                      sent(i) == Cardinality({u \in sw[s].pushed :
                                     \E j \in 1..Len(old) : old[j].uid = u /\ same_alert(old[j], old[i])})
                      rank(i) == Cardinality({j \in 1..i : same_alert(old[j], old[i])})
                  IN  heap[r] = AtPositions(old, {i \in 1..Len(old) : rank(i) > sent(i)})

\* Witness of C13: a sweep has ended after it observed a price equal to the
\* target for one condition, which has stayed, and notified and removed
\* another.
C13_Witness ==
    \E s \in Sweeps, a \in 1..Len(made), b \in 1..Len(made) :
        /\ sw[s].pc = "done"
        /\ \E i \in 1..Len(sw[s].seen) :
              sw[s].seen[i] = [uid |-> a, price |-> Some(made[a].target)]
        /\ InStore(a) /\ a \notin sw[s].pushed
        /\ b \in sw[s].pushed /\ b \in sw[s].removed /\ ~InStore(b)

\* The alert objects of list `old` that are equal to its i-th entry.
Group(old, i) == {old[j].uid : j \in {m \in 1..Len(old) : same_alert(old[m], old[i])}}

\* The entries of list `now` equal to alert a.
Remaining(now, a) == Cardinality({m \in 1..Len(now) : same_alert(now[m], a)})

\* Every alert object that was in a list when sweep s started has had its
\* price fetched and its condition evaluated exactly once by s.
EvaluatedOnce(s) ==
    \A r \in 1..Len(sw[s].start) : \A i \in 1..Len(sw[s].start[r]) :
        Cardinality({n \in 1..Len(sw[s].seen) : sw[s].seen[n].uid = sw[s].start[r][i].uid}) = 1

\* C15 as stated: when a sweep run alone ends, every condition instance has
\* been evaluated exactly once, and of k equal conditions of a user of which
\* j were triggered, j notifications were emitted and k - j remain (all k
\* triggered: k notifications, none remains).
C15_EqualConditionsTriggered ==
    \A s \in Sweeps :
        sw[s].pc = "done" =>
            /\ EvaluatedOnce(s)
            /\ \A r \in 1..Len(sw[s].start) : \A i \in 1..Len(sw[s].start[r]) :
                  LET g == Group(sw[s].start[r], i)
                      j == Cardinality(g \cap ObservedTrue(s))
                  IN  /\ SumNotified(g) = j
                      /\ Remaining(heap[r], sw[s].start[r][i]) = Cardinality(g) - j

\* C15 amended: when a sweep run alone ends, every condition instance has
\* been evaluated exactly once, and of k equal conditions of a user of which
\* j were triggered and d of those had their notification accepted by the
\* notifier (d <= j, the other j - d notifications raised), d notifications
\* were emitted and k - d remain.
C15_EqualConditionsDelivered ==
    \A s \in Sweeps :
        sw[s].pc = "done" =>
            /\ EvaluatedOnce(s)
            /\ \A r \in 1..Len(sw[s].start) : \A i \in 1..Len(sw[s].start[r]) :
                  LET g == Group(sw[s].start[r], i)
                      j == Cardinality(g \cap ObservedTrue(s))
                      d == Cardinality(g \cap sw[s].pushed)
                  IN  /\ d <= j
                      /\ j - d = Cardinality(g \cap sw[s].raised)
                      /\ SumNotified(g) = d
                      /\ Remaining(heap[r], sw[s].start[r][i]) = Cardinality(g) - d

\* Witness of C15: of three equal conditions of a user two were triggered
\* and notified, and one remains.
C15_Witness ==
    \E s \in Sweeps :
        /\ sw[s].pc = "done"
        /\ \E r \in 1..Len(sw[s].start) : \E i \in 1..Len(sw[s].start[r]) :
              LET g == Group(sw[s].start[r], i)
              IN  /\ Cardinality(g) = 3
                  /\ Cardinality(g \cap sw[s].pushed) = 2
                  /\ Cardinality(g \cap ObservedTrue(s)) = 2
                  /\ Remaining(heap[r], sw[s].start[r][i]) = 1

(***************************************************************************)
(* Properties of the message handler working next to other requests.       *)
(***************************************************************************)
\* Handler h has sent the success acknowledgment for the alert it appended.
Acknowledged(h) ==
    /\ hd[h].uid # 0
    /\ \E i \in 1..Len(hd[h].out) : hd[h].out[i].text = <<TXT_SET_OK>>

\* C14: a condition for which the handler has sent the success
\* acknowledgment is in that user's alert list unless a sweep has notified
\* for it (or for a condition equal to it), whatever the other handlers and
\* the sweeps do meanwhile.
C14_NoAcknowledgedAlertLost ==
    \A h \in Handlers :
        Acknowledged(h) =>
            \/ \E i \in 1..Len(ListOf(hd[h].event.user)) :
                  ListOf(hd[h].event.user)[i].uid = hd[h].uid
            \/ \E x \in Equals(hd[h].uid) : notified[x] >= 1

\* Handler h is handling a one-to-one message that is no alert-set command.
IsLookup(h) ==
    /\ hd[h].pc \in {"lookup", "done"}
    /\ hd[h].event.src = "user"
    /\ ~startswith(strip(hd[h].event.text), KW_SET)

\* The text names the identifier.
Mentions(text, id) ==
    \E p \in 1..Len(text) : p + Len(id) - 1 <= Len(text) /\ SubSeq(text, p, p + Len(id) - 1) = id

\* The messages handler h has to send for its lookup, in order: for a multi
\* lookup without a valid identifier the error reply; otherwise the "please
\* wait" reply and one push per identifier, in the parsed order.
ExpectedApis(h) ==
    LET parsed == parse_user_input(strip(hd[h].event.text))
    IN  IF parsed.mode = "multi" /\ parsed.stock_ids = <<>> THEN <<"reply">>
        ELSE <<"reply">> \o [i \in 1..Len(parsed.stock_ids) |-> "push"]

\* The first m messages handler h has sent are the first m it has to send.
SentInOrder(h, m) ==
    LET parsed == parse_user_input(strip(hd[h].event.text))
        none == parsed.mode = "multi" /\ parsed.stock_ids = <<>>
    IN  \A i \in 1..m :
            /\ hd[h].out[i].api = ExpectedApis(h)[i]
            /\ i = 1 => hd[h].out[i].text = (IF none THEN <<TXT_NO_VALID_ID>> ELSE <<TXT_PLEASE_WAIT>>)
            /\ i > 1 => Mentions(hd[h].out[i].text, parsed.stock_ids[i - 1])

\* C16 as stated: a Lookup with n identifiers ends with exactly one "please
\* wait" reply followed by exactly n pushes, one per identifier in the parsed
\* order; a multi Lookup with no valid identifier ends with one error reply
\* and nothing else.
C16_ReplySequenceComplete ==
    \A h \in Handlers :
        (IsLookup(h) /\ hd[h].pc = "done") =>
            /\ Len(hd[h].out) = Len(ExpectedApis(h))
            /\ SentInOrder(h, Len(hd[h].out))

\* C16 amended: at every moment of a Lookup with n identifiers the messages
\* sent are the first ones of the sequence "please wait", push for
\* identifier 1, ..., push for identifier n (for a multi Lookup with no valid
\* identifier: of the one error reply); the provider has been asked only
\* for identifiers whose turn has come, so an identifier's retrieval begins
\* after the push for the one before it; the handler ends with the whole
\* sequence sent unless a call of the notifier raised, and then it ends at
\* that call with the messages before it sent and none after it.
C16_ReplySequencePrefix ==
    \A h \in Handlers :
        IsLookup(h) =>
            LET parsed == parse_user_input(strip(hd[h].event.text))
                n == Len(parsed.stock_ids)
            IN  /\ Len(hd[h].out) <= Len(ExpectedApis(h))
                /\ SentInOrder(h, Len(hd[h].out))
                /\ hd[h].pc = "lookup" => Len(hd[h].out) = hd[h].k
                /\ \A sym \in hd[h].asked :
                      \E i \in 1..n : i <= Len(hd[h].out) /\ sym = to_yahoo_symbol(parsed.stock_ids[i])
                /\ (hd[h].pc = "done" /\ ~hd[h].failed) => Len(hd[h].out) = Len(ExpectedApis(h))
                /\ (hd[h].pc = "done" /\ hd[h].failed) => Len(hd[h].out) < Len(ExpectedApis(h))

\* Witness of C16: the multi lookup with an invalid token among two valid
\* identifiers has ended with the "please wait" reply and two pushes.
C16_Witness ==
    \E h \in Handlers :
        /\ IsLookup(h) /\ hd[h].pc = "done" /\ ~hd[h].failed
        /\ hd[h].event.text = MSG_MULTI
        /\ Len(hd[h].out) = 3
        /\ hd[h].out[2].api = "push" /\ hd[h].out[3].api = "push"

\* Handler h has ended handling a one-to-one message that begins with the
\* alert-set keyword.
EndedAlertSet(h) ==
    /\ hd[h].pc = "done"
    /\ hd[h].event.src = "user"
    /\ startswith(strip(hd[h].event.text), KW_SET)

\* The message has the form keyword, identifier of 4 or 5 decimal digits,
\* operator, decimal target.
HasAlertForm(text) ==
    LET m == alert_match(strip(text)) IN m.ok /\ IsDecimalId(m.stock_id)

\* C17: a message beginning with the alert-set keyword appends a condition
\* only when it has the alert-set form; for any deviation the reply is the
\* fixed format-error message; and whenever the format-error message is the
\* reply, the handler has added no condition to the store.
C17_FormatErrorLeavesStore ==
    \A h \in Handlers :
        EndedAlertSet(h) =>
            /\ hd[h].uid # 0 => HasAlertForm(hd[h].event.text)
            /\ (~HasAlertForm(hd[h].event.text) /\ ~hd[h].failed) =>
                  hd[h].out = <<Sent("reply", <<TXT_FORMAT_ERROR>>, FALSE)>>
            /\ (\E i \in 1..Len(hd[h].out) : hd[h].out[i].text = <<TXT_FORMAT_ERROR>>) =>
                  hd[h].uid = 0

\* Handler h is handling a message whose sender is not one-to-one.
NotPrivate(h) == hd[h].pc # "idle" /\ hd[h].event.src # "user"

\* C20: a message event whose sender is not one-to-one ends after exactly
\* one call of the notifier, the fixed "private chat only" reply, whatever
\* its text: the handler appends no alert, asks the provider nothing and
\* sends no push, and no step taken while it is handled changes the alert
\* store, the name cache or the files of the charts.
C20_PrivateOnlyFrame ==
    /\ [](\A h \in Handlers :
            NotPrivate(h) =>
                /\ hd[h].pc = "done" /\ hd[h].calls = 1
                /\ \/ ~hd[h].failed /\ hd[h].out = <<Sent("reply", <<TXT_PRIVATE_ONLY>>, FALSE)>>
                   \/ hd[h].failed /\ hd[h].out = <<>>
                /\ hd[h].asked = {} /\ hd[h].uid = 0)
    /\ [][(\E h \in Handlers : NotPrivate(h) \/ NotPrivate(h)') =>
              UNCHANGED <<alerts, heap, made, notified, name_cache, files>>]_vars

\* Witness of C20: a well-formed alert-set command sent in a group has been
\* answered with the "private chat only" reply.
C20_Witness ==
    \E h \in Handlers :
        /\ NotPrivate(h) /\ hd[h].pc = "done"
        /\ HasAlertForm(hd[h].event.text)
        /\ hd[h].out = <<Sent("reply", <<TXT_PRIVATE_ONLY>>, FALSE)>>

====
